---- MODULE Spec2Model ----
(***************************************************************************)
(* The execution environment selector of the graph editor: the pure        *)
(* function get_next_execution_environment, the FRP network built by       *)
(* init_frp (execution_environment.rs), and the propagation engine that    *)
(* runs it (one pass per emitted event).                                   *)
(***************************************************************************)
EXTENDS Integers, Sequences, FiniteSets, TLC

(***************************************************************************)
(* Bounds of the model.                                                    *)
(***************************************************************************)
\* longest list of available execution environments the host sets
MaxAvail == 2
\* the host emits an event only while fewer than MaxQueue are pending
MaxQueue == 2
\* longest list given to get_next_execution_environment in FnSpec
MaxLen == 3
\* longest list of available execution environments in runs of toggles
MaxCycle == 3
\* largest capacity a CircularVecDeque is made with
MaxCapacity == 2

(***************************************************************************)
(* Values.                                                                 *)
(***************************************************************************)
\* Option<T>
None == [some |-> FALSE]
Some(x) == [some |-> TRUE, v |-> x]

\* the selector's ExecutionEnvironment values (make_entries: "Design", "Live")
Envs == {"Design", "Live"}

\* the values of the frp input set_execution_environment: the variants of the
\* graph editor's own ExecutionEnvironment type, converted by .into()
InputEnvs == {[variant |-> "Design"], [variant |-> "Live"]}

\* (*env).into(): the selector's value for a variant of the input type
Into(env) == env.variant

\* the sequences over S of length at most n
SeqsUpTo(S, n) == UNION {[1..k -> S] : k \in 0..n}

\* the lists set_available_execution_environments may carry
AvailLists == SeqsUpTo(Envs, MaxAvail)

Unit == "()"

(***************************************************************************)
(* get_next_execution_environment                                          *)
(***************************************************************************)
\* available.iter().position(|mode| mode == current): the first index (from
\* 0) holding current, or None
Position(current, available) ==
    LET hits == {i \in 1..Len(available) : available[i] = current}
    IN  IF hits = {} THEN None
        ELSE Some((CHOOSE i \in hits : \A j \in hits : i <= j) - 1)

\* a next-index computation that does not wrap
NextIndexNoWrap(index, len) == IF index + 1 < len THEN index + 1 ELSE index

\* line 19 stepping two positions instead of one
NextIndexSkip(index, length) == (index + 2) % length

\* (index + 1) % available.len()
NextIndex(index, len) == (index + 1) % len

\* lines 18-20 keeping the current environment when it is not available
get_next_or_current(current, available) ==
    LET index == Position(current, available)
    IN  IF ~index.some THEN Some(current)
        ELSE Some(available[NextIndex(index.v, Len(available)) + 1])

get_next_execution_environment(current, available) ==
    LET index == Position(current, available)
    IN  IF ~index.some THEN None
        ELSE Some(available[NextIndex(index.v, Len(available)) + 1])

(***************************************************************************)
(* Geometry values (Vector2<f32>, with whole even coordinates so that      *)
(* size.y / 2.0 is exact).                                                 *)
(***************************************************************************)
Vector2(x, y) == [x |-> x, y |-> y]
\* the sizes the selector reports
SizeVals == {Vector2(2, 2), Vector2(4, 6)}
\* the value of inputs.space_for_window_buttons
GapVals == {Vector2(8, 0)}

\* constants of the graph editor used by the layout observer; their values
\* are set outside execution_environment.rs
MACOS_TRAFFIC_LIGHTS_VERTICAL_CENTER == -20
traffic_lights_gap_width == 70
TOP_BAR_ITEM_MARGIN == 10
BREADCRUMBS_HEIGHT == 32

(***************************************************************************)
(* The network built by init_frp, in declaration order.  ups lists the     *)
(* declared upstreams in the order they were written; for a Sample node    *)
(* ups = <<data, trigger>>.                                                *)
(***************************************************************************)
\* a sample(..) declared as a node that recomputes on its data input too
NodeSampleAsAll(id, kind, ups) ==
    [id |-> id, kind |-> IF kind = "Sample" THEN "MergeAll" ELSE kind, ups |-> ups]

Node(id, kind, ups) == [id |-> id, kind |-> kind, ups |-> ups]

\* the endpoints init_frp is given (frp, model.frp, the selector and the
\* breadcrumbs)
Endpoints == <<
    Node("set_available_execution_environments", "Source", <<>>),
    Node("set_execution_environment", "Source", <<>>),
    Node("toggle_execution_environment", "Source", <<>>),
    Node("space_for_window_buttons", "Source", <<>>),
    Node("selector.size", "Source", <<>>),
    Node("selector.play_press", "Source", <<>>),
    Node("breadcrumbs.gap_width", "Source", <<>>)
>>

\* the selector component behind its endpoints: its selection follows the
\* user's choice in the dropdown and the value set on it
Selector == <<
    Node("selector.dropdown", "Source", <<>>),
    Node("selector.selected_execution_environment", "MergeAny",
         <<"selector.dropdown", "selector.set_execution_environment">>)
>>

\* the nodes the frp::extend! block of init_frp declares
Wiring == <<
    \* line 35
    Node("selector.set_available_execution_environments", "MergeAny",
         <<"set_available_execution_environments">>),
    \* line 36
    Node("selected_execution_environment", "Map", <<"set_execution_environment">>),
    \* line 37
    Node("execution_environment_state", "MergeAll",
         <<"out.execution_environment", "set_available_execution_environments">>),
    \* line 39
    Node("execution_environment_toggled", "Sample",
         <<"execution_environment_state", "toggle_execution_environment">>),
    \* line 40
    Node("toggled_execution_environment", "FilterMap",
         <<"execution_environment_toggled">>),
    \* line 42
    Node("external_execution_environment_update", "MergeAny",
         <<"selected_execution_environment", "toggled_execution_environment">>),
    \* line 43
    Node("selector.set_execution_environment", "MergeAny",
         <<"external_execution_environment_update">>),
    \* line 45
    Node("execution_environment_update", "MergeAny",
         <<"selector.selected_execution_environment",
           "external_execution_environment_update">>),
    \* line 46
    Node("out.execution_environment", "MergeAny", <<"execution_environment_update">>),
    \* line 47
    Node("out.execution_environment_play_button_pressed", "MergeAny",
         <<"selector.play_press">>),
    \* line 52
    Node("init", "Source", <<>>),
    \* line 53
    Node("size_update", "MergeAll",
         <<"init", "selector.size", "space_for_window_buttons">>)
>>

Network == Endpoints \o Selector \o Wiring

Nodes == {Network[i].id : i \in 1..Len(Network)}
\* the position of each node in declaration order
DeclIndexOf == [n \in Nodes |-> CHOOSE i \in 1..Len(Network) : Network[i].id = n]
DeclIndex(n) == DeclIndexOf[n]

\* line 39 written as a node that recomputes on either of its upstreams
KindSampleAsAll(n) ==
    IF Network[DeclIndexOf[n]].kind = "Sample" THEN "MergeAll"
    ELSE Network[DeclIndexOf[n]].kind

\* the combinator of node n
Kind(n) == Network[DeclIndexOf[n]].kind

\* line 37 reading the external update instead of the authoritative state
UpsStateFromExternal(n) ==
    IF n = "execution_environment_state"
    THEN <<"external_execution_environment_update",
           "set_available_execution_environments">>
    ELSE Network[DeclIndexOf[n]].ups

\* line 42 without the external selection
UpsNoSelected(n) ==
    IF n = "external_execution_environment_update"
    THEN <<"toggled_execution_environment">>
    ELSE Network[DeclIndexOf[n]].ups

\* line 39 sampling on the selector's size instead of the toggle
UpsSampleOnSize(n) ==
    IF n = "execution_environment_toggled"
    THEN <<"execution_environment_state", "selector.size">>
    ELSE Network[DeclIndexOf[n]].ups

\* line 53 combining the selector's size with itself instead of the space
\* for the window buttons
UpsSizeTwice(n) ==
    IF n = "size_update"
    THEN <<"init", "selector.size", "selector.size">>
    ELSE Network[DeclIndexOf[n]].ups

\* line 39 sampling on the authoritative state instead of the toggle
UpsSampleOnOut(n) ==
    IF n = "execution_environment_toggled"
    THEN <<"execution_environment_state", "out.execution_environment">>
    ELSE Network[DeclIndexOf[n]].ups

\* line 37 reading the merged update instead of the authoritative state
UpsStateFromUpdate(n) ==
    IF n = "execution_environment_state"
    THEN <<"execution_environment_update",
           "set_available_execution_environments">>
    ELSE Network[DeclIndexOf[n]].ups

\* line 45 with the upstreams of any(..) written in the other order
UpsSwapped(n) ==
    IF n = "execution_environment_update"
    THEN <<"external_execution_environment_update",
           "selector.selected_execution_environment">>
    ELSE Network[DeclIndexOf[n]].ups

\* the declared upstreams of node n, in the order they were written
Ups(n) == Network[DeclIndexOf[n]].ups
Sources == {n \in Nodes : Kind(n) = "Source"}
Range(s) == {s[i] : i \in 1..Len(s)}

\* line 40 falling back to the current value when there is no next one
ApplyKeep(n, x) ==
    CASE n = "selected_execution_environment" -> Some(Into(x))
      [] n = "toggled_execution_environment" ->
            IF get_next_execution_environment(x[1], x[2]).some
            THEN get_next_execution_environment(x[1], x[2])
            ELSE Some(x[1])

\* the function of a Map / FilterMap node
Apply(n, x) ==
    CASE n = "selected_execution_environment" -> Some(Into(x))
      [] n = "toggled_execution_environment" ->
            get_next_execution_environment(x[1], x[2])

(***************************************************************************)
(* The propagation engine.                                                 *)
(***************************************************************************)
\* every declared upstream makes n recompute, the data input of a Sample
\* node included
PropUpsAll(n) == Range(Ups(n))

\* the upstreams whose firing makes n recompute: every declared upstream,
\* but for a Sample node only its trigger
PropUps(n) ==
    IF Kind(n) = "Sample" THEN {Ups(n)[2]} ELSE Range(Ups(n))

Dependents(n) == {m \in Nodes : n \in PropUps(m)}

\* the nodes transitively dependent on the nodes of S
RECURSIVE Reach(_)
Reach(S) ==
    LET more == S \cup UNION {Dependents(n) : n \in S}
    IN  IF more = S THEN S ELSE Reach(more)

Closure(src) == Reach({src}) \ {src}

\* the nodes of S in declaration order, whatever their upstreams
RECURSIVE TopoSortDecl(_, _)
TopoSortDecl(S, done) ==
    IF S = {} THEN done
    ELSE LET n == CHOOSE r \in S : \A q \in S : DeclIndex(r) <= DeclIndex(q)
         IN  TopoSortDecl(S \ {n}, Append(done, n))

\* a topological order of S: a node comes after all its upstreams in S;
\* among the nodes that are ready, the one declared first comes first
RECURSIVE TopoSort(_, _)
TopoSort(S, done) ==
    LET ready == {n \in S : (PropUps(n) \cap S) = {}}
    IN  IF S = {} \/ ready = {} THEN done
        ELSE LET n == CHOOSE r \in ready :
                          \A q \in ready : DeclIndex(r) <= DeclIndex(q)
             IN  TopoSort(S \ {n}, Append(done, n))

\* the nodes one pass from src evaluates, in evaluation order
PassOrderOf == [src \in Sources |-> TopoSort(Closure(src), <<>>)]
PassOrder(src) == PassOrderOf[src]

\* the declared upstreams of n that fired in this pass, in declared order
FiredUps(n, fired) == SelectSeq(Ups(n), LAMBDA u : u \in fired)

\* MergeAny takes the upstream declared last among those that fired
MergeAnyLast(ups) == ups[Len(ups)]

\* MergeAny takes the upstream declared first among those that fired
MergeAnyPick(ups) == ups[1]

\* the value a node stands for before it has produced one (the default of
\* its type): for execution_environment_state an empty name and no options
DefaultOf(n) ==
    IF n = "execution_environment_state" THEN <<"", <<>>>> ELSE Unit

\* the last value of node n in v, its default when it has produced none
LastOf(n, v) == IF v[n].some THEN v[n].v ELSE DefaultOf(n)

\* a Sample node fires when its trigger fires
SampleFires(ups, fired) == ups[2] \in fired

\* the recomputation rule of node n: Some(new value) when n fires in this
\* pass, None when it does not; v holds the nodes' values, fired the nodes
\* that have fired in this pass
Eval(n, v, fired) ==
    CASE Kind(n) = "Map" ->
            IF Ups(n)[1] \in fired THEN Apply(n, v[Ups(n)[1]].v) ELSE None
      [] Kind(n) = "FilterMap" ->
            IF Ups(n)[1] \in fired THEN Apply(n, v[Ups(n)[1]].v) ELSE None
      [] Kind(n) = "Sample" ->
            IF SampleFires(Ups(n), fired)
            THEN Some(LastOf(Ups(n)[1], v)) ELSE None
      [] Kind(n) = "MergeAny" ->
            IF FiredUps(n, fired) = <<>> THEN None
            ELSE Some(v[MergeAnyPick(FiredUps(n, fired))].v)
      [] Kind(n) = "MergeAll" ->
            IF FiredUps(n, fired) # <<>> /\ \A u \in Range(Ups(n)) : v[u].some
            THEN Some([i \in 1..Len(Ups(n)) |-> v[Ups(n)[i]].v])
            ELSE None
      [] OTHER -> None

(***************************************************************************)
(* State.                                                                  *)
(***************************************************************************)
VARIABLES
    val,        \* each node's last produced value (None until it first fires)
    queue,      \* the emitted events not yet processed, oldest first
    phase,      \* the scheduler's state: "Idle" or "Propagating"
    cur,        \* the event of the running pass (None when idle)
    order,      \* the nodes the running pass has still to evaluate
    fired,      \* the nodes that have fired in the running pass
    pre,        \* the nodes' values when the running pass started
    evaluated,  \* the nodes the running pass has evaluated, in order
    via,        \* for each MergeAny node fired in the running pass, the
                \* upstream it took its value from
    layout,     \* the positions the layout observer has set
    fn_current,    \* FnSpec: the arguments of one call of
    fn_available,  \*   get_next_execution_environment
    fn_result,     \* FnSpec: what the call returned (NotCalled before it)
    trail,      \* the authoritative state before and after each of the
                \* latest toggle passes that no other selection event
                \* separates
    declared,   \* the declarations made on the construction of a network
    built,      \* the network under construction
    build_state,   \* "Building", "Built" or "Failed"
    capacity,   \* CircularVecDeque: its fields
    vec,
    last_op,    \* the last operation on the deque and the vec before it
    profile,           \* BuildInput: the fields perhaps_check_size reads
    profiling_level,
    wasm_size_limit,
    compressed_size,   \* what compressed_size(&wasm_path) returns
    check_result       \* what perhaps_check_size returned (NotCalled
                       \* before it)

netvars == <<val, queue, phase, cur, order, fired, pre, evaluated, via, layout>>
fnvars == <<fn_current, fn_available, fn_result>>
buildvars == <<declared, built, build_state>>
dqvars == <<capacity, vec, last_op>>
sizevars == <<profile, profiling_level, wasm_size_limit, compressed_size,
              check_result>>
vars == <<netvars, fnvars, trail, buildvars, dqvars, sizevars>>

Event(src, value) == [src |-> src, val |-> value]

NotCalled == [called |-> FALSE]

NoValues == [n \in Nodes |-> None]

NoOp == [name |-> "new"]

\* no call of get_next_execution_environment is being looked at
FnUnused ==
    /\ fn_current = "Design"
    /\ fn_available = <<>>
    /\ fn_result = NotCalled

\* the frp::extend! block of init_frp has been run
NetworkBuilt ==
    /\ declared = Wiring
    /\ built = Wiring
    /\ build_state = "Built"

\* no deque is being looked at
DequeUnused ==
    /\ capacity = 0
    /\ vec = <<>>
    /\ last_op = NoOp

\* no call of perhaps_check_size is being looked at
SizeUnused ==
    /\ profile = "Dev"
    /\ profiling_level = None
    /\ wasm_size_limit = None
    /\ compressed_size = [ok |-> FALSE]
    /\ check_result = NotCalled

\* the state after the frp::extend! block of init_frp, with the event of
\* init.emit(()) (line 67) emitted and not yet processed
Init ==
    /\ val = NoValues
    /\ queue = <<Event("init", Unit)>>
    /\ phase = "Idle"
    /\ cur = None
    /\ order = <<>>
    /\ fired = {}
    /\ pre = NoValues
    /\ evaluated = <<>>
    /\ via = {}
    /\ layout = [selector_x |-> 0, selector_y |-> 0, breadcrumbs_y |-> 0]
    /\ FnUnused
    /\ trail = <<>>
    /\ NetworkBuilt
    /\ DequeUnused
    /\ SizeUnused

(***************************************************************************)
(* Events emitted by the host of the network.                              *)
(***************************************************************************)
\* emit(value) on a Source by code outside the network, which may have at
\* most pending events emitted and not yet processed
Emit(src, value, pending) ==
    /\ phase = "Idle"
    /\ Len(queue) < pending
    /\ queue' = Append(queue, Event(src, value))
    /\ UNCHANGED <<val, phase, cur, order, fired, pre, evaluated, via, layout>>
    /\ UNCHANGED <<fnvars, trail, buildvars, dqvars, sizevars>>

SetAvailableExecutionEnvironments ==
    \E list \in AvailLists :
        Emit("set_available_execution_environments", list, 1)

SetExecutionEnvironment ==
    \E env \in InputEnvs : Emit("set_execution_environment", env, 1)

ToggleExecutionEnvironment == Emit("toggle_execution_environment", Unit, 1)

DropdownSelect == \E env \in Envs : Emit("selector.dropdown", env, 1)

\* the same events with the entries of the dropdown example (make_entries)
\* and a host that emits while earlier events are still pending
make_entries == <<"Design", "Live">>

SetEntries == Emit("set_available_execution_environments", make_entries, MaxQueue)

SetExecutionEnvironmentPending ==
    \E env \in InputEnvs : Emit("set_execution_environment", env, MaxQueue)

TogglePending == Emit("toggle_execution_environment", Unit, MaxQueue)

PlayPress == Emit("selector.play_press", Unit, MaxQueue)

SelectorSize == \E size \in SizeVals : Emit("selector.size", size, MaxQueue)

SpaceForWindowButtons ==
    \E gap_size \in GapVals : Emit("space_for_window_buttons", gap_size, MaxQueue)

(***************************************************************************)
(* The observer of size_update (eval size_update, lines 54-65).            *)
(***************************************************************************)
\* the positions the observer sets for the value of size_update
LayoutOf(size, gap_size) ==
    LET y_offset == MACOS_TRAFFIC_LIGHTS_VERTICAL_CENTER
        execution_environment_selector_x == gap_size.x + traffic_lights_gap_width
    IN  [selector_x |-> execution_environment_selector_x,
         selector_y |-> y_offset + size.y \div 2,
         breadcrumbs_y |-> y_offset + BREADCRUMBS_HEIGHT \div 2]

\* the value the observer emits into breadcrumbs.gap_width
BreadcrumbGapWidth(size, gap_size) ==
    (gap_size.x + traffic_lights_gap_width) + size.x + TOP_BAR_ITEM_MARGIN

\* the observer registered on the play button's output as well, where it
\* emits the gap width of an empty layout
ObserverEmitsOnPlay(n, x) ==
    IF n = "size_update"
    THEN <<Event("breadcrumbs.gap_width", BreadcrumbGapWidth(x[2], x[3]))>>
    ELSE IF n = "out.execution_environment_play_button_pressed"
         THEN <<Event("breadcrumbs.gap_width", 0)>>
         ELSE <<>>

\* the events the observers of node n emit when n has taken value x
ObserverEmits(n, x) ==
    IF n = "size_update"
    THEN <<Event("breadcrumbs.gap_width", BreadcrumbGapWidth(x[2], x[3]))>>
    ELSE <<>>

\* lines 58-59 moving the selector by the computed x instead of setting it
ObserverLayoutMoveBy(n, x, old) ==
    IF n = "size_update"
    THEN [LayoutOf(x[2], x[3]) EXCEPT !.selector_x = old.selector_x + @]
    ELSE old

\* the layout after the observers of node n have run on value x
ObserverLayout(n, x, old) ==
    IF n = "size_update" THEN LayoutOf(x[2], x[3]) ELSE old

(***************************************************************************)
(* The scheduler.                                                          *)
(***************************************************************************)
\* the newest pending event is taken first
DequeueNewest(q) == [event |-> q[Len(q)], rest |-> SubSeq(q, 1, Len(q) - 1)]

\* the event the next pass is for, and the events left pending
Dequeue(q) == [event |-> Head(q), rest |-> Tail(q)]

\* the events take effect at once, inside the running pass
ReentrantNested(q, v, emits) ==
    [queue |-> q,
     val |-> [n \in Nodes |->
                IF \E i \in 1..Len(emits) : emits[i].src = n
                THEN Some(emits[CHOOSE i \in 1..Len(emits) : emits[i].src = n].val)
                ELSE v[n]]]

\* events emitted while a pass is running: they are queued behind the
\* pending ones and the nodes' values are left alone
Reentrant(q, v, emits) == [queue |-> q \o emits, val |-> v]

\* Idle -> Propagating: the oldest emitted event starts a pass
StartPass ==
    /\ phase = "Idle"
    /\ queue # <<>>
    /\ LET e == Dequeue(queue).event
       IN  /\ val' = [val EXCEPT ![e.src] = Some(e.val)]
           /\ cur' = Some(e)
           /\ order' = PassOrder(e.src)
           /\ fired' = {e.src}
    /\ queue' = Dequeue(queue).rest
    /\ phase' = "Propagating"
    /\ pre' = val
    /\ evaluated' = <<>>
    /\ via' = {}
    /\ UNCHANGED layout
    /\ UNCHANGED <<fnvars, trail, buildvars, dqvars, sizevars>>

\* the running pass evaluates its next node and, when the node fires, runs
\* the node's observers
Step ==
    /\ phase = "Propagating"
    /\ order # <<>>
    /\ LET n == Head(order)
           r == Eval(n, val, fired)
       IN  /\ order' = Tail(order)
           /\ evaluated' = Append(evaluated, n)
           /\ IF r.some
              THEN LET after == Reentrant(queue, [val EXCEPT ![n] = r],
                                          ObserverEmits(n, r.v))
                   IN  /\ val' = after.val
                       /\ queue' = after.queue
                       /\ fired' = fired \cup {n}
                       /\ via' = IF Kind(n) = "MergeAny"
                                 THEN via \cup {<<n, MergeAnyPick(FiredUps(n, fired))>>}
                                 ELSE via
                       /\ layout' = ObserverLayout(n, r.v, layout)
              ELSE UNCHANGED <<val, fired, via, queue, layout>>
    /\ UNCHANGED <<phase, cur, pre>>
    /\ UNCHANGED <<fnvars, trail, buildvars, dqvars, sizevars>>

\* Propagating -> Idle: every node of the pass has been evaluated
EndPass ==
    /\ phase = "Propagating"
    /\ order = <<>>
    /\ phase' = "Idle"
    /\ cur' = None
    /\ fired' = {}
    /\ pre' = NoValues
    /\ evaluated' = <<>>
    /\ via' = {}
    /\ UNCHANGED <<val, queue, order, layout>>
    /\ UNCHANGED <<fnvars, buildvars, dqvars, sizevars>>

FinishPass == EndPass /\ UNCHANGED trail

\* the selection events, one at a time, with every list of available
\* environments
Next ==
    \/ SetAvailableExecutionEnvironments
    \/ SetExecutionEnvironment
    \/ ToggleExecutionEnvironment
    \/ DropdownSelect
    \/ StartPass
    \/ Step
    \/ FinishPass

Spec == Init /\ [][Next]_vars


\* the selection and toggle events, emitted while others are pending; the
\* engine is one thread that runs a pass to its end and takes the next
\* pending event as soon as it is idle: no step of a pass waits for ever
LiveNext ==
    \/ SetEntries
    \/ SetExecutionEnvironmentPending
    \/ TogglePending
    \/ StartPass
    \/ Step
    \/ FinishPass

LiveSpec ==
    /\ Init /\ [][LiveNext]_vars
    /\ WF_vars(StartPass)
    /\ WF_vars(Step)
    /\ WF_vars(FinishPass)
\* the geometry events among selection and toggle events, with events
\* pending while others are emitted
LayoutNext ==
    \/ SetEntries
    \/ SetExecutionEnvironmentPending
    \/ TogglePending
    \/ PlayPress
    \/ SelectorSize
    \/ SpaceForWindowButtons
    \/ StartPass
    \/ Step
    \/ FinishPass

LayoutSpec == Init /\ [][LayoutNext]_vars

(***************************************************************************)
(* One call of get_next_execution_environment on arguments drawn from      *)
(* bounded sets.                                                           *)
(***************************************************************************)
FnEnvs == Envs \cup {"Other"}

\* the network at rest, with no event emitted
NetUnused ==
    /\ val = NoValues
    /\ queue = <<>>
    /\ phase = "Idle"
    /\ cur = None
    /\ order = <<>>
    /\ fired = {}
    /\ pre = NoValues
    /\ evaluated = <<>>
    /\ via = {}
    /\ layout = [selector_x |-> 0, selector_y |-> 0, breadcrumbs_y |-> 0]
    /\ trail = <<>>

FnInit ==
    /\ NetUnused
    /\ fn_current \in FnEnvs
    /\ fn_available \in SeqsUpTo(FnEnvs, MaxLen)
    /\ fn_result = NotCalled
    /\ NetworkBuilt
    /\ DequeUnused
    /\ SizeUnused

Call ==
    /\ fn_result = NotCalled
    /\ fn_result' = [called |-> TRUE,
                  ret |-> get_next_execution_environment(fn_current, fn_available)]
    /\ UNCHANGED <<fn_current, fn_available>>
    /\ UNCHANGED <<netvars, trail, buildvars, dqvars, sizevars>>

FnNext == Call

FnSpec == FnInit /\ [][FnNext]_vars

(***************************************************************************)
(* Runs of toggles: the selection events with lists of pairwise distinct   *)
(* environments, and the authoritative state recorded at the end of each   *)
(* pass.                                                                   *)
(***************************************************************************)
Distinct(a) == \A i, j \in 1..Len(a) : i # j => a[i] # a[j]

\* the lists of at most MaxCycle pairwise distinct environments
CycleLists == {a \in SeqsUpTo(FnEnvs, MaxCycle) : Distinct(a)}

SetDistinctEntries ==
    \E list \in CycleLists :
        Emit("set_available_execution_environments", list, 1)

\* the record of the authoritative state over the latest toggle passes: a
\* toggle pass adds the state it leaves (after the state it found, when it
\* is the first of a run) and only the last Len(available) + 1 states are
\* kept; the pass of any other selection event ends the run
TrailAfter ==
    LET out == val["out.execution_environment"]
        available == val["set_available_execution_environments"]
    IN  IF cur.v.src = "toggle_execution_environment"
        THEN IF ~ pre["out.execution_environment"].some \/ ~ available.some
             THEN <<>>
             ELSE LET t == IF trail = <<>>
                           THEN <<pre["out.execution_environment"].v>>
                           ELSE trail
                  IN  IF Len(t) <= Len(available.v)
                      THEN Append(t, out.v)
                      ELSE Append(Tail(t), out.v)
        ELSE IF cur.v.src \in {"set_execution_environment",
                               "set_available_execution_environments",
                               "selector.dropdown"}
             THEN <<>>
             ELSE trail

FinishPassTrail == EndPass /\ trail' = TrailAfter

CycleNext ==
    \/ SetDistinctEntries
    \/ SetExecutionEnvironment
    \/ ToggleExecutionEnvironment
    \/ StartPass
    \/ Step
    \/ FinishPassTrail

CycleSpec == Init /\ [][CycleNext]_vars

(***************************************************************************)
(* Construction of a network: the declarations of init_frp are made one by *)
(* one, each two-input node with any of the two-input combinators.         *)
(***************************************************************************)
\* the combinators a declaration may be made with
KindChoices(node) ==
    IF Len(node.ups) = 2 THEN {"MergeAny", "MergeAll", "Sample"} ELSE {node.kind}

\* the upstreams whose current-pass output the node reads: every declared
\* upstream, but for a Sample node only its trigger
ReadsInPass(node) ==
    IF node.kind = "Sample" THEN {node.ups[2]} ELSE Range(node.ups)

\* the nodes (by position in net) left when every node that reads no
\* current-pass output of a node still in S has been taken out of S
RECURSIVE Peel(_, _)
Peel(net, S) ==
    LET ready == {i \in S : \A j \in S : net[j].id \notin ReadsInPass(net[i])}
    IN  IF ready = {} THEN S ELSE Peel(net, S \ ready)

\* the construction-time check: some node would have to read its own
\* current-pass output before producing it
SelfReference(net) == Peel(net, 1..Len(net)) # {}

BuildInit ==
    /\ declared = <<>>
    /\ built = <<>>
    /\ build_state = "Building"
    /\ NetUnused
    /\ FnUnused
    /\ DequeUnused
    /\ SizeUnused

\* the next declaration of init_frp is made; a self-reference is fatal to
\* the construction and the network built so far is discarded
Declare ==
    /\ build_state = "Building"
    /\ Len(declared) < Len(Wiring)
    /\ \E kind \in KindChoices(Wiring[Len(declared) + 1]) :
          LET node == [Wiring[Len(declared) + 1] EXCEPT !.kind = kind]
              next == Append(built, node)
          IN  /\ declared' = Append(declared, node)
              /\ IF SelfReference(Endpoints \o Selector \o next)
                 THEN /\ built' = <<>>
                      /\ build_state' = "Failed"
                 ELSE /\ built' = next
                      /\ build_state' = IF Len(next) = Len(Wiring)
                                        THEN "Built" ELSE "Building"
    /\ UNCHANGED <<netvars, fnvars, trail, dqvars, sizevars>>

BuildNext == Declare

BuildSpec == BuildInit /\ [][BuildNext]_vars

(***************************************************************************)
(* CircularVecDeque (circular_vec.rs): a deque made with every capacity up *)
(* to MaxCapacity and used with every sequence of pushes and pops.         *)
(***************************************************************************)
DequeVals == {1, 2, 3}

\* the longest vec looked at, one more than the largest capacity
MaxVecLen == MaxCapacity + 1

\* VecDeque::pop_front and VecDeque::pop_back: nothing to pop from an empty
\* vec
VecPopFront(v) == IF v = <<>> THEN v ELSE Tail(v)
VecPopBack(v) == IF v = <<>> THEN v ELSE SubSeq(v, 1, Len(v) - 1)

len == Len(vec)

is_full == len = capacity

\* the record of an operation: its name, its argument and the deque it
\* was called on
Op(name, value) ==
    [name |-> name, value |-> value, before |-> vec, was_full |-> is_full]

\* CircularVecDeque::new(c)
DequeInit ==
    /\ capacity \in 0..MaxCapacity
    /\ vec = <<>>
    /\ last_op = NoOp
    /\ NetUnused
    /\ FnUnused
    /\ NetworkBuilt
    /\ SizeUnused

push_front ==
    \E value \in DequeVals :
        /\ is_full \/ len < MaxVecLen
        /\ vec' = <<value>> \o (IF is_full THEN VecPopBack(vec) ELSE vec)
        /\ last_op' = Op("push_front", value)
        /\ UNCHANGED <<capacity, netvars, fnvars, trail, buildvars, sizevars>>

push_back ==
    \E value \in DequeVals :
        /\ is_full \/ len < MaxVecLen
        /\ vec' = Append(IF is_full THEN VecPopFront(vec) ELSE vec, value)
        /\ last_op' = Op("push_back", value)
        /\ UNCHANGED <<capacity, netvars, fnvars, trail, buildvars, sizevars>>

pop_front ==
    /\ vec' = VecPopFront(vec)
    /\ last_op' = Op("pop_front", IF vec = <<>> THEN None ELSE Some(Head(vec)))
    /\ UNCHANGED <<capacity, netvars, fnvars, trail, buildvars, sizevars>>

pop_back ==
    /\ vec' = VecPopBack(vec)
    /\ last_op' = Op("pop_back", IF vec = <<>> THEN None ELSE Some(vec[Len(vec)]))
    /\ UNCHANGED <<capacity, netvars, fnvars, trail, buildvars, sizevars>>

DequeNext ==
    \/ push_front
    \/ push_back
    \/ pop_front
    \/ pop_back

DequeSpec == DequeInit /\ [][DequeNext]_vars

(***************************************************************************)
(* BuildInput::perhaps_check_size (wasm.rs): one call on every combination *)
(* of profile, profiling level, size limit and compressed size.            *)
(***************************************************************************)
Profiles == {"Dev", "Profile", "Release"}

ProfilingLevels == {"Objective", "Task", "Detail", "Debug"}

\* sizes in bytes on both sides of the steps between the units
ByteVals == {1023, 1024, 1025, 1048576}

\* the bytes of one unit of byte_unit's binary multiples
UnitSize(unit) ==
    CASE unit = "B" -> 1
      [] unit = "KiB" -> 1024
      [] unit = "MiB" -> 1048576

\* Byte::get_appropriate_unit(true): the size as a number of the largest
\* binary unit that is not larger than it, kept as its whole units and the
\* bytes that make the fraction of a unit
get_appropriate_unit(bytes) ==
    LET unit == IF bytes >= UnitSize("MiB") THEN "MiB"
                ELSE IF bytes >= UnitSize("KiB") THEN "KiB"
                ELSE "B"
    IN  [value |-> [whole |-> bytes \div UnitSize(unit),
                    rest |-> bytes % UnitSize(unit)],
         unit |-> unit]

\* AdjustedByte::get_byte: the value times its unit
get_byte(adjusted) ==
    adjusted.value.whole * UnitSize(adjusted.unit) + adjusted.value.rest

\* AdjustedByte's order: the order of the bytes
AdjustedLess(a, b) == get_byte(a) < get_byte(b)

\* the size is checked for the profiling profile as well
should_check_size_profile(self) ==
    CASE self = "Dev" -> FALSE
      [] self = "Profile" -> TRUE
      [] self = "Release" -> TRUE

should_check_size(self) ==
    CASE self = "Dev" -> FALSE
      [] self = "Profile" -> FALSE
      [] self = "Release" -> TRUE

\* Option<ProfilingLevel>::unwrap_or_default, Objective being the default
unwrap_or_default(level) == IF level.some THEN level.v ELSE "Objective"

Ok == [ok |-> TRUE]
Err(error) == [ok |-> FALSE, error |-> error]

\* what perhaps_check_size returns on the fields of the BuildInput
perhaps_check_size ==
    IF ~ compressed_size.ok THEN Err("compressed_size")
    ELSE IF wasm_size_limit.some
         THEN IF ~ should_check_size(profile) THEN Ok
              ELSE IF unwrap_or_default(profiling_level) # "Objective" THEN Ok
              ELSE IF AdjustedLess(get_appropriate_unit(compressed_size.bytes),
                                   get_appropriate_unit(wasm_size_limit.v))
                   THEN Ok
                   ELSE Err("exceeds the limit")
         ELSE Ok

SizeInit ==
    /\ profile \in Profiles
    /\ profiling_level \in {None} \cup {Some(l) : l \in ProfilingLevels}
    /\ wasm_size_limit \in {None} \cup {Some(b) : b \in ByteVals}
    /\ compressed_size \in
          {[ok |-> FALSE]} \cup {[ok |-> TRUE, bytes |-> b] : b \in ByteVals}
    /\ check_result = NotCalled
    /\ NetUnused
    /\ FnUnused
    /\ NetworkBuilt
    /\ DequeUnused

PerhapsCheckSize ==
    /\ check_result = NotCalled
    /\ check_result' = [called |-> TRUE, ret |-> perhaps_check_size]
    /\ UNCHANGED <<profile, profiling_level, wasm_size_limit, compressed_size>>
    /\ UNCHANGED <<netvars, fnvars, trail, buildvars, dqvars>>

SizeNext == PerhapsCheckSize

SizeSpec == SizeInit /\ [][SizeNext]_vars

(***************************************************************************)
(* Properties.                                                             *)
(***************************************************************************)
\* the first position (from 1) of c in list a, which holds c
FirstIndex(c, a) ==
    CHOOSE i \in 1..Len(a) : a[i] = c /\ \A j \in 1..(i - 1) : a[j] # c

\* the element after the first occurrence of c in a, wrapping from the last
\* element to the first
ElementAfter(c, a) == a[(FirstIndex(c, a) % Len(a)) + 1]

\* the running pass has evaluated all its nodes
PassDone == phase = "Propagating" /\ order = <<>>

\* the pass of an event of source src has evaluated all its nodes
PassDoneOf(src) == PassDone /\ cur.v.src = src

\* the nodes that recompute, directly or through other nodes, when src
\* fires: a Sample node on its trigger, any other node on each upstream
RECURSIVE Grow(_, _)
Grow(S, k) ==
    IF k = 0 THEN S
    ELSE Grow(S \cup {m \in Nodes :
                        \E u \in S :
                            IF Kind(m) = "Sample" THEN u = Ups(m)[2]
                            ELSE u \in Range(Ups(m))},
              k - 1)
Downstream == [src \in Sources |-> Grow({src}, Len(Network)) \ {src}]

\* C1: get_next_execution_environment(current, available) returns None when
\* current is not in available and otherwise the element at position
\* (index of current + 1) mod length, wrapping from the last element to the
\* first; with one available option the result is that option, and for
\* [Design, Live] it maps Design to Live and Live to Design.
C1_NextWraps ==
    fn_result.called =>
        /\ fn_current \notin Range(fn_available) => fn_result.ret = None
        /\ fn_current \in Range(fn_available) =>
               fn_result.ret = Some(ElementAfter(fn_current, fn_available))
        /\ fn_available = <<fn_current>> => fn_result.ret = Some(fn_current)
        /\ (fn_available = <<"Design", "Live">> /\ fn_current = "Design") =>
               fn_result.ret = Some("Live")
        /\ (fn_available = <<"Design", "Live">> /\ fn_current = "Live") =>
               fn_result.ret = Some("Design")

\* a call on the last element of a list of three has returned the first
C1_Witness ==
    /\ fn_result.called
    /\ fn_available = <<"Design", "Live", "Other">>
    /\ fn_current = "Other"
    /\ fn_result.ret = Some("Design")

\* C2: when a pass triggered by toggle_execution_environment completes,
\* out.execution_environment is the element after s in the available list,
\* where s is the value out.execution_environment had when the pass started.
C2_ToggleFromSnapshot ==
    ( /\ PassDoneOf("toggle_execution_environment")
      /\ pre["out.execution_environment"].some
      /\ pre["set_available_execution_environments"].some
      /\ pre["out.execution_environment"].v
            \in Range(pre["set_available_execution_environments"].v) )
    => val["out.execution_environment"] =
          Some(ElementAfter(pre["out.execution_environment"].v,
                            pre["set_available_execution_environments"].v))

\* with [Design, Live] a toggle had given Design, and a second toggle has
\* now given Live
C2_Witness ==
    /\ PassDoneOf("toggle_execution_environment")
    /\ pre["set_available_execution_environments"] = Some(<<"Design", "Live">>)
    /\ pre["toggled_execution_environment"] = Some("Design")
    /\ pre["out.execution_environment"] = Some("Design")
    /\ val["out.execution_environment"] = Some("Live")

\* C3: when the pass of set_execution_environment(v) completes,
\* out.execution_environment is v, whatever it was before.
C3_SelectionSetsState ==
    PassDoneOf("set_execution_environment")
    => val["out.execution_environment"] = Some(cur.v.val.variant)

\* an external selection of Live has replaced the state Design
C3_Witness ==
    /\ PassDoneOf("set_execution_environment")
    /\ cur.v.val = [variant |-> "Live"]
    /\ pre["out.execution_environment"] = Some("Design")
    /\ val["out.execution_environment"] = Some("Live")

\* C4: when toggle_execution_environment fires while the authoritative value
\* is not in the available list, the next-option computation is suppressed:
\* the merged update nodes do not fire and out.execution_environment is
\* after the pass what it was before.
C4_ToggleWithoutNext ==
    ( /\ PassDoneOf("toggle_execution_environment")
      /\ pre["out.execution_environment"].some
      /\ pre["set_available_execution_environments"].some
      /\ pre["out.execution_environment"].v
            \notin Range(pre["set_available_execution_environments"].v) )
    => /\ "execution_environment_toggled" \in fired
       /\ fired \cap {"toggled_execution_environment",
                      "external_execution_environment_update",
                      "execution_environment_update",
                      "out.execution_environment"} = {}
       /\ val["out.execution_environment"] = pre["out.execution_environment"]

\* a toggle has run with state Design and the available list [Live]
C4_Witness ==
    /\ PassDoneOf("toggle_execution_environment")
    /\ pre["out.execution_environment"] = Some("Design")
    /\ pre["set_available_execution_environments"] = Some(<<"Live">>)
    /\ val["out.execution_environment"] = Some("Design")

\* C5: a pass evaluates every node transitively dependent on the firing
\* Source exactly once and then stops; no node is evaluated twice, also
\* where out.execution_environment feeds back into the sample node's data.
C5_EvaluatedOnce ==
    phase = "Propagating" =>
        /\ \A i, j \in 1..Len(evaluated) : evaluated[i] = evaluated[j] => i = j
        /\ Range(evaluated) \subseteq Downstream[cur.v.src]
        /\ order = <<>> => Range(evaluated) = Downstream[cur.v.src]

\* a toggle pass has updated the state node that the sample node reads
C5_Witness ==
    /\ PassDoneOf("toggle_execution_environment")
    /\ "execution_environment_toggled" \in fired
    /\ "execution_environment_state" \in fired
    /\ val["execution_environment_state"] # pre["execution_environment_state"]

\* C6: a pass leaves unchanged every node outside the transitive dependents
\* of the firing Source; a pass of init, the selector's size or
\* space_for_window_buttons leaves out.execution_environment unchanged.
C6_FrameOfPass ==
    phase = "Propagating" =>
        /\ \A n \in Nodes \ (Downstream[cur.v.src] \cup {cur.v.src}) :
               val[n] = pre[n]
        /\ cur.v.src \in {"init", "selector.size", "space_for_window_buttons"}
               => val["out.execution_environment"] = pre["out.execution_environment"]

\* a size pass has updated the layout after a toggle had produced a value
C6_Witness ==
    /\ PassDoneOf("selector.size")
    /\ "size_update" \in fired
    /\ pre["toggled_execution_environment"].some
    /\ val["out.execution_environment"].some

\* the value the combinator of a fired node n yields from the upstream
\* values v, a Sample node taking its data from the values data
FunctionOf(n, v, data) ==
    CASE Kind(n) \in {"Map", "FilterMap"} -> Apply(n, v[Ups(n)[1]].v)
      [] Kind(n) = "Sample" -> Some(LastOf(Ups(n)[1], data))
      [] Kind(n) = "MergeAny" -> v[SelectSeq(Ups(n), LAMBDA u : u \in fired)[1]]
      [] Kind(n) = "MergeAll" -> Some([i \in 1..Len(Ups(n)) |-> v[Ups(n)[i]].v])

\* a Map or MergeAll node whose upstreams all have a value holds the
\* function of these values
StatelessUpToDate ==
    \A n \in Nodes :
        (Kind(n) \in {"Map", "MergeAll"} /\ \A u \in Range(Ups(n)) : val[u].some)
            => val[n] = FunctionOf(n, val, val)

\* C7 as stated: after each pass every derived node holds the function,
\* given by its combinator kind, of its upstreams' post-pass values.
C7_PostPassFunction ==
    PassDone =>
        /\ \A n \in fired \ Sources : val[n] = FunctionOf(n, val, val)
        /\ StatelessUpToDate

\* C7 (amended): after each pass every derived node that fired in it holds
\* the function, given by its combinator kind, of its upstreams' post-pass
\* values, except that a Sample node holds the value its data upstream had
\* when the pass started; a node that did not fire holds the value it had
\* when the pass started, and every Map and MergeAll node whose upstreams
\* have values holds the function of their post-pass values.
C7_FunctionOfUpstreams ==
    PassDone =>
        /\ \A n \in fired \ Sources : val[n] = FunctionOf(n, val, pre)
        /\ \A n \in Nodes \ fired : val[n] = pre[n]
        /\ StatelessUpToDate

\* a toggle pass has changed the state, and the state node holds the new
\* value of out.execution_environment while the sample node holds the old
C7_Witness ==
    /\ PassDoneOf("toggle_execution_environment")
    /\ "execution_environment_state" \in fired
    /\ val["execution_environment_state"].v[1] = val["out.execution_environment"].v
    /\ val["execution_environment_toggled"] = pre["execution_environment_state"]
    /\ val["execution_environment_toggled"] # val["execution_environment_state"]

\* C8: an emission made by an observer while a pass is running is queued
\* and takes effect only in a later pass of its own: inside the running pass
\* the emitted event is the last of the queue and the Source it was emitted
\* into keeps its value; the Source takes the value in the pass of that event.
C8_ReentrantQueued ==
    /\ (phase = "Propagating" /\ "size_update" \in fired) =>
          /\ cur.v.src # "breadcrumbs.gap_width"
          /\ val["breadcrumbs.gap_width"] = pre["breadcrumbs.gap_width"]
          /\ queue # <<>>
          /\ queue[Len(queue)] =
                Event("breadcrumbs.gap_width",
                      BreadcrumbGapWidth(val["size_update"].v[2],
                                         val["size_update"].v[3]))
    /\ (phase = "Propagating" /\ cur.v.src = "breadcrumbs.gap_width") =>
          /\ val["breadcrumbs.gap_width"] = Some(cur.v.val)
          /\ fired = {"breadcrumbs.gap_width"}

\* the observer has emitted a new gap width behind a pending event, while the
\* running pass still sees the gap width of an earlier pass
C8_Witness ==
    /\ phase = "Propagating"
    /\ "size_update" \in fired
    /\ Len(queue) >= 2
    /\ val["breadcrumbs.gap_width"].some
    /\ val["breadcrumbs.gap_width"].v # queue[Len(queue)].val

\* C9: events are processed in the order they were emitted, one full pass at
\* a time: an event enters the queue at the back, leaves it from the front
\* and only when no pass is running, and the event of a running pass does
\* not change before all nodes of the pass are evaluated.
C9_EmissionOrder ==
    [][ /\ (queue' # queue) =>
              \/ /\ Len(queue') > Len(queue)
                 /\ SubSeq(queue', 1, Len(queue)) = queue
              \/ /\ phase = "Idle" /\ phase' = "Propagating"
                 /\ queue # <<>>
                 /\ queue' = Tail(queue)
                 /\ cur' = Some(Head(queue))
        /\ (phase = "Propagating" /\ phase' = "Propagating") => cur' = cur
        /\ (phase = "Propagating" /\ phase' = "Idle") => order = <<>>
        /\ (phase = "Idle" /\ phase' = "Idle") => cur' = cur
      ]_vars

\* the pass of a queued re-entrant emission has completed while an event
\* emitted after it is still waiting
C9_Witness ==
    /\ PassDoneOf("breadcrumbs.gap_width")
    /\ queue # <<>>
    /\ queue[1].src = "toggle_execution_environment"

LatestOfUps(n) == [i \in 1..Len(Ups(n)) |-> val[Ups(n)[i]].v]

\* C11: a MergeAll node has no value while one of its declared upstreams has
\* never fired; once all have fired it fires in every pass in which one of
\* them fires and forwards the tuple of their latest values.  This holds of
\* execution_environment_state = all(out.execution_environment,
\* set_available_execution_environments) and of size_update = all(init,
\* selector.size, space_for_window_buttons).
C11_MergeAllWaits ==
    /\ \A n \in Nodes :
          Kind(n) = "MergeAll" =>
             /\ val[n].some => \A u \in Range(Ups(n)) : val[u].some
             /\ n \in fired => val[n] = Some(LatestOfUps(n))
             /\ ( /\ PassDone
                  /\ \E u \in Range(Ups(n)) : u \in fired
                  /\ \A u \in Range(Ups(n)) : val[u].some ) => n \in fired
             /\ (PassDone /\ n \in fired) => \E u \in Range(Ups(n)) : u \in fired
    /\ val["execution_environment_state"].some =>
          /\ val["out.execution_environment"].some
          /\ val["set_available_execution_environments"].some
    /\ "execution_environment_state" \in fired =>
          val["execution_environment_state"] =
             Some(<<val["out.execution_environment"].v,
                    val["set_available_execution_environments"].v>>)
    /\ val["size_update"].some =>
          /\ val["init"].some
          /\ val["selector.size"].some
          /\ val["space_for_window_buttons"].some
    /\ "size_update" \in fired =>
          val["size_update"] =
             Some(<<val["init"].v, val["selector.size"].v,
                    val["space_for_window_buttons"].v>>)

\* size_update, having fired before, fires again on a new size of the
\* selector alone; and the state has waited for the list
C11_Witness ==
    /\ PassDoneOf("selector.size")
    /\ "size_update" \in fired
    /\ pre["size_update"].some
    /\ val["size_update"] # pre["size_update"]
    /\ val["out.execution_environment"].some
    /\ ~ val["execution_environment_state"].some

\* C12: a Sample node fires in a pass exactly when its trigger fires in that
\* pass; an update of its data upstream alone never fires it; when it fires
\* it takes the last value of its data upstream, the one of before the
\* pass, whether or not the data upstream fires in the pass.  In the
\* selector network execution_environment_toggled fires exactly in the
\* passes of toggle_execution_environment, and a pass of any other event
\* produces no toggled value.
C12_SampleOnTrigger ==
    /\ \A n \in Nodes :
          Kind(n) = "Sample" =>
             /\ n \in fired => Ups(n)[2] \in fired
             /\ (PassDone /\ Ups(n)[2] \in fired) => n \in fired
             /\ (n \in fired /\ pre[Ups(n)[1]].some) =>
                   val[n] = Some(pre[Ups(n)[1]].v)
             /\ (phase = "Propagating" /\ n \notin fired) => val[n] = pre[n]
    /\ "execution_environment_toggled" \in fired =>
          "toggle_execution_environment" \in fired
    /\ PassDoneOf("toggle_execution_environment") =>
          "execution_environment_toggled" \in fired
    /\ ( /\ phase = "Propagating"
         /\ "toggle_execution_environment" \notin fired ) =>
          /\ "toggled_execution_environment" \notin fired
          /\ val["execution_environment_toggled"] =
                pre["execution_environment_toggled"]
          /\ val["toggled_execution_environment"] =
                pre["toggled_execution_environment"]

\* a toggle has sampled a state that does not fire in the pass, after passes
\* in which the state and the list were updated without a toggle
C12_Witness ==
    /\ PassDoneOf("toggle_execution_environment")
    /\ "execution_environment_toggled" \in fired
    /\ "execution_environment_state" \notin fired
    /\ pre["execution_environment_state"].some
    /\ val["execution_environment_toggled"] =
          Some(<<"Design", <<"Live">>>>)

\* the step in which size_update fires and its observer runs
ObserverRuns == "size_update" \notin fired /\ "size_update" \in fired'

\* the gap width the observer emitted last: the one of the newest pending
\* event of breadcrumbs.gap_width, or the one breadcrumbs.gap_width holds
LastGapWidth ==
    LET pending == {i \in 1..Len(queue) : queue[i].src = "breadcrumbs.gap_width"}
    IN  IF pending # {}
        THEN queue[CHOOSE i \in pending : \A j \in pending : j <= i].val
        ELSE val["breadcrumbs.gap_width"].v

\* the positions set and the gap width emitted are those of the value of
\* size_update alone, and the same as the time before when the value is
\* the same
SamePositions ==
    LET x == val'["size_update"].v
    IN  /\ layout' = LayoutOf(x[2], x[3])
        /\ val'["size_update"] = val["size_update"] => layout' = layout

\* C13 as stated: the observer of size_update emits no event into any node,
\* and the same triple gives the same positions
C13_PureNoEmission ==
    [][ObserverRuns => (queue' = queue /\ SamePositions)]_vars

\* C13, amended: the observer of size_update computes the positions
\* (selector x and y, breadcrumbs y) and the breadcrumbs' gap width from the
\* (size, gap) of the value of size_update alone; it changes no node's value
\* and its one emission is the gap width into breadcrumbs.gap_width, queued
\* behind the pending events; feeding the same triple twice gives the same
\* positions and the same gap width both times.
C13_LayoutIdempotent ==
    [][ObserverRuns =>
         LET x == val'["size_update"].v
             emitted == queue'[Len(queue')]
         IN  /\ SamePositions
             /\ queue' = Append(queue, emitted)
             /\ emitted.src = "breadcrumbs.gap_width"
             /\ emitted.val = BreadcrumbGapWidth(x[2], x[3])
             /\ val'["size_update"] = val["size_update"] =>
                   emitted.val = LastGapWidth
             /\ \A n \in Nodes \ {"size_update"} : val'[n] = val[n]
      ]_vars

\* the observer has run twice on the same triple
C13_Witness ==
    /\ PassDoneOf("space_for_window_buttons")
    /\ "size_update" \in fired
    /\ pre["size_update"].some
    /\ val["size_update"] = pre["size_update"]
    /\ layout = LayoutOf(Vector2(4, 6), Vector2(8, 0))

\* node a has been evaluated in the running pass, and before node b if b
\* has been evaluated at all
EvaluatedBefore(a, b) ==
    \E i \in 1..Len(evaluated) :
        /\ evaluated[i] = a
        /\ \A j \in 1..Len(evaluated) : evaluated[j] = b => i < j

\* in a toggle pass the toggled value is computed before the merged updates
\* and the authoritative state, and the state pair after them
ToggleOrder ==
    PassDoneOf("toggle_execution_environment") =>
        /\ evaluated[1] = "execution_environment_toggled"
        /\ EvaluatedBefore("execution_environment_toggled",
                           "toggled_execution_environment")
        /\ EvaluatedBefore("toggled_execution_environment",
                           "external_execution_environment_update")
        /\ EvaluatedBefore("external_execution_environment_update",
                           "execution_environment_update")
        /\ EvaluatedBefore("execution_environment_update",
                           "out.execution_environment")
        /\ EvaluatedBefore("out.execution_environment",
                           "execution_environment_state")

\* C17 as stated: a node is evaluated only after every one of its declared
\* upstreams that is in the pass's reachable subset
C17_DeclaredUpstreamsFirst ==
    /\ phase = "Propagating" =>
          \A i \in 1..Len(evaluated) :
             \A u \in Range(Ups(evaluated[i])) \cap Downstream[cur.v.src] :
                \E j \in 1..(i - 1) : evaluated[j] = u
    /\ ToggleOrder

\* C17, amended: within a pass a node is evaluated only after every one of
\* its declared upstreams that is in the pass's reachable subset, the data
\* input of a Sample node excepted (it is read as it was before the pass);
\* in the selector network a toggle pass evaluates the toggled (next value)
\* node before the merged update nodes and the authoritative state node.
C17_TopologicalOrder ==
    /\ phase = "Propagating" =>
          \A i \in 1..Len(evaluated) :
             LET n == evaluated[i]
                 waits == IF Kind(n) = "Sample" THEN {Ups(n)[2]}
                          ELSE Range(Ups(n))
             IN  \A u \in waits \cap Downstream[cur.v.src] :
                    \E j \in 1..(i - 1) : evaluated[j] = u
    /\ PassDone => Range(evaluated) = Downstream[cur.v.src]
    /\ ToggleOrder

\* a toggle pass has gone round the loop: the toggled value, the merged
\* updates, the authoritative state and the state pair have all fired
C17_Witness ==
    /\ PassDoneOf("toggle_execution_environment")
    /\ {"toggled_execution_environment", "execution_environment_update",
        "out.execution_environment", "execution_environment_state"}
          \subseteq fired
    /\ Len(evaluated) = 8

\* the steps the scheduler may take between its two states
SchedulerStep ==
    /\ (phase = "Idle" /\ phase' = "Propagating") =>
          /\ queue # <<>>
          /\ cur' = Some(Head(queue))
    /\ (phase = "Propagating" /\ phase' = "Propagating") =>
          /\ cur' = cur
          /\ order # <<>>
          /\ evaluated' = Append(evaluated, Head(order))
    /\ (phase = "Propagating" /\ phase' = "Idle") =>
          /\ order = <<>>
          /\ Range(evaluated) = Downstream[cur.v.src]
    /\ (phase = "Idle" /\ phase' = "Idle") =>
          UNCHANGED <<val, cur, order, evaluated>>

\* C18: the scheduler is always Idle or Propagating; it leaves Idle only for
\* a pass of the oldest pending event and leaves Propagating only when every
\* node reachable from the event's source has been evaluated; a running pass
\* is never cancelled or restarted, and every pass that starts runs to its
\* end, after which the scheduler is Idle again -- the toggle passes, which
\* go round the feedback loop, included.
C18_PassCompletes ==
    /\ [](phase \in {"Idle", "Propagating"})
    /\ [][SchedulerStep]_vars
    /\ (phase = "Propagating") ~> (phase = "Idle")
    /\ (phase = "Propagating" /\ cur.v.src = "toggle_execution_environment")
          ~> PassDoneOf("toggle_execution_environment")

\* a toggle pass that has gone round the feedback loop has ended and the
\* scheduler is about to return to Idle
C18_Witness ==
    /\ PassDoneOf("toggle_execution_environment")
    /\ "execution_environment_state" \in fired
    /\ val["out.execution_environment"] = Some("Live")
    /\ ENABLED FinishPass

\* a step of a running pass in which an observer acts: it sets positions or
\* emits an event
ObserverActs ==
    /\ phase = "Propagating"
    /\ layout' # layout \/ queue' # queue

C15_LenAtMostCapacity == len <= capacity

\* C16: push_back(v) on a full deque drops the front element and appends v,
\* push_front(v) on a full deque drops the back element and puts v in
\* front, the other elements keep their order and len() is unchanged; on a
\* deque that is not full either push drops nothing and len() grows by one.
C16_PushDropsOpposite ==
    LET b == last_op.before
    IN  /\ (last_op.name = "push_back" /\ last_op.was_full) =>
              /\ vec = Append(SubSeq(b, 2, Len(b)), last_op.value)
              /\ Len(vec) = Len(b)
        /\ (last_op.name = "push_front" /\ last_op.was_full) =>
              /\ vec = <<last_op.value>> \o SubSeq(b, 1, Len(b) - 1)
              /\ Len(vec) = Len(b)
        /\ (last_op.name = "push_back" /\ ~ last_op.was_full) =>
              vec = Append(b, last_op.value)
        /\ (last_op.name = "push_front" /\ ~ last_op.was_full) =>
              vec = <<last_op.value>> \o b

\* C20: with n >= 1 pairwise distinct available environments and an
\* authoritative state that is one of them, n toggles in a row, with no
\* other selection event between them, take the state through every
\* available environment exactly once and bring it back to where it started.
C20_ToggleCycle ==
    (phase = "Idle" /\ val["set_available_execution_environments"].some) =>
        LET available == val["set_available_execution_environments"].v
            n == Len(available)
        IN  ( /\ n >= 1
              /\ Distinct(available)
              /\ Len(trail) = n + 1
              /\ trail[1] \in Range(available) ) =>
                /\ trail[n + 1] = trail[1]
                /\ {trail[i] : i \in 2..(n + 1)} = Range(available)
                /\ \A i, j \in 2..(n + 1) : i # j => trail[i] # trail[j]
                /\ val["out.execution_environment"] = Some(trail[1])

\* three toggles in a row have taken the state from Live round a list of
\* three and back
C20_Witness ==
    /\ phase = "Idle"
    /\ val["set_available_execution_environments"] =
          Some(<<"Design", "Other", "Live">>)
    /\ trail = <<"Live", "Design", "Other", "Live">>

\* the nodes of net that recompute in the pass in which a node of S fires
FiresWith(net, S) ==
    {net[i].id : i \in {k \in 1..Len(net) :
                          IF net[k].kind = "Sample" THEN net[k].ups[2] \in S
                          ELSE Range(net[k].ups) \cap S # {}}}

RECURSIVE FiresAfter(_, _, _)
FiresAfter(net, S, k) ==
    IF k = 0 THEN S ELSE FiresAfter(net, S \cup FiresWith(net, S), k - 1)

\* some node recomputes, in one pass, from its own output of that pass
ReadsOwnOutput(net) ==
    \E i \in 1..Len(net) :
        net[i].id \in FiresAfter(net, FiresWith(net, {net[i].id}), Len(net))

\* the declarations made are those of init_frp as written
AsWritten == \A i \in 1..Len(declared) : declared[i] = Wiring[i]

\* C14: the construction of a network fails exactly when the declarations
\* made would have a node read its own current-pass output before
\* producing it, and then the network built so far is discarded; the
\* declarations of init_frp as written, with the authoritative state read
\* through the data input of the sample node of line 39, are accepted.
C14_RejectsSelfReference ==
    /\ build_state \in {"Building", "Built", "Failed"}
    /\ build_state = "Failed" <=>
          ReadsOwnOutput(Endpoints \o Selector \o declared)
    /\ build_state = "Failed" => built = <<>>
    /\ build_state # "Failed" => built = declared
    /\ build_state = "Built" <=>
          (Len(declared) = Len(Wiring) /\ build_state # "Failed")
    /\ AsWritten => build_state # "Failed"
    /\ (AsWritten /\ Len(declared) = Len(Wiring)) =>
          (build_state = "Built" /\ built = Wiring)

\* line 46 has closed a loop through a line 39 declared with all(..): the
\* construction has failed and nothing is left of the network
C14_Witness ==
    /\ build_state = "Failed"
    /\ built = <<>>
    /\ Len(declared) = 9
    /\ declared[4].kind = "MergeAll"
    /\ \A i \in 1..9 : i # 4 => declared[i] = Wiring[i]

\* a toggle pass has ended that started when execution_environment_state
\* had never fired
EarlyToggleDone ==
    /\ PassDoneOf("toggle_execution_environment")
    /\ ~ pre["execution_environment_state"].some

\* the early toggle pass has updated nothing behind the toggled value
EarlyToggleUpdatesNothing ==
    /\ {"toggled_execution_environment",
        "external_execution_environment_update",
        "selector.set_execution_environment",
        "execution_environment_update",
        "out.execution_environment",
        "execution_environment_state"} \cap fired = {}
    /\ val["selector.set_execution_environment"] =
          pre["selector.set_execution_environment"]
    /\ val["out.execution_environment"] = pre["out.execution_environment"]
    /\ ~ val["execution_environment_state"].some

\* C21 as stated: a toggle before execution_environment_state has ever
\* fired updates neither the selector's set_execution_environment nor
\* out.execution_environment, and the authoritative state is left without
\* a value
C21_EarlyToggleNoValue ==
    EarlyToggleDone =>
        /\ EarlyToggleUpdatesNothing
        /\ ~ val["out.execution_environment"].some

\* C21, amended: a toggle before execution_environment_state has ever fired
\* (the authoritative state or the list of available environments not yet
\* produced) updates neither the selector's set_execution_environment nor
\* out.execution_environment; the authoritative state keeps what it had
\* before the pass -- no value when no selection was made, the selected
\* environment when a selection came before the list -- and
\* execution_environment_state remains without a value.
C21_EarlyToggleIgnored ==
    /\ EarlyToggleDone => EarlyToggleUpdatesNothing
    /\ ( /\ EarlyToggleDone
         /\ ~ pre["selector.dropdown"].some
         /\ ~ pre["set_execution_environment"].some ) =>
          ~ val["out.execution_environment"].some

\* a toggle has been made after a selection and before any list: the
\* sample has fired and the selected state is left as it was
C21_Witness ==
    /\ EarlyToggleDone
    /\ "execution_environment_toggled" \in fired
    /\ ~ val["set_available_execution_environments"].some
    /\ pre["out.execution_environment"] = Some("Live")
    /\ val["out.execution_environment"] = Some("Live")

\* C22: when the compressed size can be read, perhaps_check_size returns an
\* error exactly when a wasm_size_limit is set, the profile is Release, the
\* profiling level is Objective or unset, and the compressed size is not
\* strictly below the limit; with no limit, with profile Dev or Profile, or
\* with profiling level Task, Detail or Debug it returns Ok whatever the
\* size.
C22_SizeCheckedOnRelease ==
    (check_result.called /\ compressed_size.ok) =>
        /\ ~ check_result.ret.ok <=>
              /\ wasm_size_limit.some
              /\ profile = "Release"
              /\ profiling_level \in {None, Some("Objective")}
              /\ ~ (compressed_size.bytes < wasm_size_limit.v)
        /\ ( \/ ~ wasm_size_limit.some
             \/ profile \in {"Dev", "Profile"}
             \/ profiling_level \in {Some("Task"), Some("Detail"), Some("Debug")} )
              => check_result.ret = [ok |-> TRUE]

\* a release build with no profiling level whose compressed size is equal
\* to the limit has been refused
C22_Witness ==
    /\ check_result.called
    /\ profile = "Release"
    /\ profiling_level = None
    /\ wasm_size_limit = Some(1024)
    /\ compressed_size = [ok |-> TRUE, bytes |-> 1024]
    /\ ~ check_result.ret.ok
====
